---- MODULE Spec2Model ----
(***************************************************************************)
(* Bedrock Support Assistant (src/app.py): the single-threaded HTTP server *)
(* and its request handler SupportTicketHandler.  One handler runs at a    *)
(* time (HTTPServer.serve_forever); connections that arrive meanwhile wait *)
(* in the listen backlog.  do_POST is split at its one blocking call,      *)
(* bedrock_client.invoke_model.                                            *)
(***************************************************************************)
EXTENDS Integers, Sequences, FiniteSets, TLC

VARIABLES
    bedrock_client,  \* module global: "client", or "None" when boto3.client failed
    backlog,         \* connections accepted by the kernel, not yet handled
    pc,              \* "idle": server loop waits; "invoke_model": do_POST blocked in the call
    req,             \* the request of the handler running now / run last
    outcome,         \* what invoke_model did in this handler ("none": not returned)
    io,              \* what the socket did to this handler's send_json_response
    sent,            \* the (status_code, data) of each send_json_response call of this handler
    wire,            \* what reached the client's socket in this handler
    calls            \* invoke_model calls made by this handler

vars == <<bedrock_client, backlog, pc, req, outcome, io, sent, wire, calls>>

----------------------------------------------------------------------------
(* Configuration, src/app.py lines 20-23 and 130 *)

REGION == "eu-west-2"
MODEL_ID == "amazon.nova-pro-v1:0"
MAX_TICKET_LENGTH == 5000
MAX_CONTENT_LENGTH == 10485760

(* Bound of the model: connections that may wait while a handler runs. *)
MaxBacklog == 2

----------------------------------------------------------------------------
(* Text.  A Python str is kept run-length encoded: a sequence of runs, each *)
(* a count of whitespace characters or a count of other characters, so that *)
(* strings of 5000 characters stay small.  Adjacent runs alternate.         *)

Run(ws, n) == [ws |-> ws, n |-> n]

RECURSIVE len(_)
len(s) == IF s = <<>> THEN 0 ELSE Head(s).n + len(Tail(s))

RECURSIVE lstrip(_)
lstrip(s) == IF s # <<>> /\ Head(s).ws THEN lstrip(Tail(s)) ELSE s

RECURSIVE rstrip(_)
rstrip(s) ==
    IF s # <<>> /\ s[Len(s)].ws THEN rstrip(SubSeq(s, 1, Len(s) - 1)) ELSE s

strip(s) == rstrip(lstrip(s))

(* `needle in haystack` for a header or an error code, kept as the sequence *)
(* of the pieces it is made of.                                             *)
Contains(haystack, needle) == \E i \in 1..Len(haystack) : haystack[i] = needle

----------------------------------------------------------------------------
(* JSON values *)

JString(runs) == [kind |-> "string", runs |-> runs, text |-> ""]
JText(text)   == [kind |-> "string", runs |-> <<>>, text |-> text]
JNull         == [kind |-> "null",   runs |-> <<>>, text |-> ""]
JNumber       == [kind |-> "number", runs |-> <<>>, text |-> "123"]

(* dict.get(key, default) *)
DictGet(d, key, default) == IF key \in DOMAIN d THEN d[key] ELSE default

----------------------------------------------------------------------------
(* What a client can send *)

ContentTypes ==
    { <<"application/json">>,
      <<"application/json", "; charset=utf-8">>,
      <<"text/plain">>,
      <<>> }                                   \* header absent: get(..., "")

(* The Content-Length header: absent, an integer literal, or other text. *)
HdrAbsent  == [kind |-> "absent", n |-> 0]
HdrInt(n)  == [kind |-> "int",    n |-> n]
HdrText    == [kind |-> "text",   n |-> 0]

ContentLengths ==
    { HdrAbsent, HdrText, HdrInt(-1), HdrInt(64),
      HdrInt(MAX_CONTENT_LENGTH), HdrInt(MAX_CONTENT_LENGTH + 1) }

Tickets ==
    { <<>>,                                                   \* ""
      <<Run(TRUE, 3)>>,                                       \* whitespace only
      <<Run(FALSE, 1)>>,
      <<Run(TRUE, 1), Run(FALSE, MAX_TICKET_LENGTH), Run(TRUE, 2)>>,
      <<Run(FALSE, 2500), Run(TRUE, 1), Run(FALSE, 2499)>>,   \* 5000, inner blank
      <<Run(FALSE, 2500), Run(TRUE, 1), Run(FALSE, 2500)>>,   \* 5001, inner blank
      <<Run(FALSE, MAX_TICKET_LENGTH + 1)>>,
      <<Run(TRUE, 1), Run(FALSE, MAX_TICKET_LENGTH - 1), Run(TRUE, 1)>> }

TicketValues   == {JString(t) : t \in Tickets} \cup {JNull, JNumber}
TicketIdValues == {JText("TICKET-001"), JNull}

(* The members of a JSON object body: any subset of the two keys read. *)
Objects ==
    { <<>> }
    \cup { [k \in {"ticket"} |-> t] : t \in TicketValues }
    \cup { [k \in {"ticket_id"} |-> i] : i \in TicketIdValues }
    \cup { [k \in {"ticket", "ticket_id"} |-> IF k = "ticket" THEN t ELSE i] :
              t \in TicketValues, i \in TicketIdValues }

(* The bytes rfile.read returns, by what decode and json.loads make of them. *)
Body(enc, syntax, kind, members) ==
    [enc |-> enc, syntax |-> syntax, kind |-> kind, members |-> members]

Bodies ==
    { Body("invalid", "malformed", "none", <<>>),      \* not UTF-8
      Body("utf-8", "malformed", "none", <<>>),        \* UTF-8, not JSON
      Body("utf-8", "json", "array", <<>>) }           \* JSON, not an object
    \cup { Body("utf-8", "json", "object", m) : m \in Objects }

NoBody == Body("utf-8", "malformed", "none", <<>>)

Request(method, path, ct, cl, body) ==
    [method |-> method, path |-> path, content_type |-> ct,
     content_length |-> cl, body |-> body]

NoRequest == Request("NONE", "", <<>>, HdrAbsent, NoBody)

(* The POST requests tried: every header combination with a few bodies, and *)
(* every body under headers that let the handler read it.                   *)
SampleBodies ==
    { Body("invalid", "malformed", "none", <<>>),
      Body("utf-8", "malformed", "none", <<>>),
      Body("utf-8", "json", "object", [k \in {"ticket"} |-> JString(<<Run(FALSE, 1)>>)]),
      Body("utf-8", "json", "object",
           [k \in {"ticket"} |-> JString(<<Run(FALSE, MAX_TICKET_LENGTH + 1)>>)]) }

PostRequests ==
    { Request("POST", "/", ct, cl, b) :
          ct \in ContentTypes, cl \in ContentLengths, b \in SampleBodies }
    \cup
    { Request("POST", "/", <<"application/json">>, cl, b) :
          cl \in {HdrInt(64), HdrInt(-1)}, b \in Bodies }

(* Request lines of the connections that can arrive. *)
Connections == { <<"GET", "/health">>, <<"GET", "/status">>, <<"POST", "/">> }

----------------------------------------------------------------------------
(* What the inference service can do to one invoke_model call *)

ErrorCodes ==
    { <<"ThrottlingException">>, <<"AccessDeniedException">>,
      <<"ValidationException">>, <<>> }        \* <<>>: the error carries no Code

StructuredReply ==
    "{\"summary\": \"Login failure\", \"severity\": \"high\", \"category\": \"technical\", \"suggested_response\": \"Please reset your password...\"}"
OtherKeysReply == "{\"note\": \"n/a\"}"
ArrayReply     == "[]"
ProseReply     == "Summary: the customer cannot log in."

ReplyTexts == {StructuredReply, OtherKeysReply, ArrayReply, ProseReply}

Outcome(kind, code, text) == [kind |-> kind, code |-> code, text |-> text]

NoOutcome == Outcome("none", <<>>, "")

Outcomes ==
    { Outcome("reply", <<>>, t) : t \in ReplyTexts }        \* Nova reply carrying text t
    \cup { Outcome("bad_reply", <<>>, "") }                 \* reply not in the Nova format
    \cup { Outcome("ClientError", c, "") : c \in ErrorCodes }
    \cup { Outcome("BotoCoreError", <<>>, "") }

(* json.loads of the assistant message: the parsed value, or JSONDecodeError. *)
JObject(members) == [kind |-> "object", members |-> members]
JArray           == [kind |-> "array",  members |-> <<>>]

json_loads(text) ==
    CASE text = StructuredReply ->
            [ok |-> TRUE,
             value |-> JObject([summary |-> "Login failure", severity |-> "high",
                                category |-> "technical",
                                suggested_response |-> "Please reset your password..."])]
      [] text = OtherKeysReply ->
            [ok |-> TRUE, value |-> JObject([note |-> "n/a"])]
      [] text = ArrayReply ->
            [ok |-> TRUE, value |-> JArray]
      [] OTHER ->
            [ok |-> FALSE, value |-> JArray]

(* What the socket does to the handler's writes. *)
SocketStates == {"ok", "reset_before_headers", "reset_before_body"}

----------------------------------------------------------------------------
(* SupportTicketHandler *)

Response(status_code, data) == [status_code |-> status_code, data |-> data]

(* send_json_response: what reaches the client.  The status line and the   *)
(* headers are flushed by end_headers before the body is serialised and    *)
(* written; an exception at either point is logged and swallowed.          *)
send_json_response(sock, status_code, data) ==
    CASE sock = "reset_before_headers" -> <<>>
      [] sock = "reset_before_body" ->
            << [status_code |-> status_code, body |-> "none", data |-> <<>>] >>
      [] OTHER ->
            << [status_code |-> status_code, body |-> "json", data |-> data] >>

RECURSIVE Transmit(_, _)
Transmit(sock, responses) ==
    IF responses = <<>> THEN <<>>
    ELSE send_json_response(sock, Head(responses).status_code, Head(responses).data)
         \o Transmit(sock, Tail(responses))

(* A handler's progress: the responses it has sent and how it goes on:    *)
(* "return", "raise" (an exception leaves the inner code) or "invoke".    *)
Step(responses, next) == [sent |-> responses, next |-> next]

(* int(self.headers.get("Content-Length", 0)) *)
IsIntLiteral(h) == h.kind # "text"
IntOf(h) == IF h.kind = "int" THEN h.n ELSE 0

TooLongMessage ==
    "Ticket exceeds maximum length of " \o ToString(MAX_TICKET_LENGTH) \o " characters"

(* do_POST, the ticket checks and the client check. *)
check_ticket(data, client) ==
    IF data.kind # "object" THEN Step(<<>>, "raise")              \* no .get
    ELSE LET t == DictGet(data.members, "ticket", JString(<<>>)) IN
         IF t.kind # "string" THEN Step(<<>>, "raise")            \* no .strip
         ELSE LET ticket == strip(t.runs) IN
              IF ticket = <<>> THEN
                  Step(<< Response(400, [error |-> "Missing or empty 'ticket' field"]) >>,
                       "return")
              ELSE IF len(ticket) > MAX_TICKET_LENGTH THEN
                  Step(<< Response(400, [error |-> TooLongMessage]) >>, "return")
              ELSE IF client = "None" THEN
                  Step(<< Response(503, [error |-> "Bedrock service unavailable"]) >>,
                       "return")
              ELSE Step(<<>>, "invoke")

(* do_POST up to the call of invoke_model. *)
validate(r, client) ==
    IF ~Contains(r.content_type, "application/json") THEN
        Step(<< Response(400, [error |-> "Content-Type must be application/json"]) >>,
             "return")
    ELSE IF ~IsIntLiteral(r.content_length) THEN Step(<<>>, "raise")   \* ValueError
    ELSE LET content_length == IntOf(r.content_length) IN
         IF content_length = 0 THEN
             Step(<< Response(400, [error |-> "No content provided"]) >>, "return")
         ELSE IF content_length > MAX_CONTENT_LENGTH THEN
             Step(<< Response(413, [error |-> "Payload too large"]) >>, "return")
         ELSE IF r.body.enc # "utf-8" THEN Step(<<>>, "raise")     \* UnicodeDecodeError
         ELSE IF r.body.syntax # "json" THEN
             Step(<< Response(400, [error |-> "Invalid JSON"]) >>, "return")
         ELSE check_ticket(r.body, client)

(* The ClientError clause without its throttling branch. *)
client_error_no_throttle_branch(responses, error_code) ==
    IF Contains(error_code, "AccessDeniedException") THEN
        Step(Append(responses,
                    Response(403, [error |->
                        "Access denied - check AWS credentials and permissions"])),
             "return")
    ELSE Step(Append(responses, Response(502, [error |-> "Bedrock service error"])),
              "return")

(* The except clauses for ClientError. *)
client_error(responses, error_code) ==
    IF Contains(error_code, "ThrottlingException") THEN
        Step(Append(responses,
                    Response(429, [error |-> "Service temporarily unavailable (throttled)"])),
             "return")
    ELSE IF Contains(error_code, "AccessDeniedException") THEN
        Step(Append(responses,
                    Response(403, [error |->
                        "Access denied - check AWS credentials and permissions"])),
             "return")
    ELSE Step(Append(responses, Response(502, [error |-> "Bedrock service error"])),
              "return")

(* The fallback taken also for JSON that lacks the four requested keys. *)
parse_analysis_keys_required(text) ==
    LET parsed == json_loads(text) IN
    IF parsed.ok /\ DOMAIN parsed.value.members
                      = {"summary", "severity", "category", "suggested_response"}
    THEN parsed.value ELSE JObject([analysis |-> text])

(* The fallback for a reply that is not JSON. *)
parse_analysis(text) ==
    LET parsed == json_loads(text) IN
    IF parsed.ok THEN parsed.value ELSE JObject([analysis |-> text])

(* The BotoCoreError clause sending its message under status 200. *)
handle_outcome_sdk_error_200(responses, data, o) ==
    CASE o.kind = "reply" ->
            Step(Append(responses,
                        Response(200, [ticket_id |-> DictGet(data.members, "ticket_id",
                                                            JText("N/A")),
                                       analysis |-> parse_analysis(o.text)])),
                 "return")
      [] o.kind = "bad_reply"     -> Step(responses, "raise")
      [] o.kind = "ClientError"   -> client_error(responses, o.code)
      [] o.kind = "BotoCoreError" ->
            Step(Append(responses, Response(200, [error |-> "AWS service error"])),
                 "return")

(* do_POST from the return of invoke_model on. *)
handle_outcome(responses, data, o) ==
    CASE o.kind = "reply" ->
            Step(Append(responses,
                        Response(200, [ticket_id |-> DictGet(data.members, "ticket_id",
                                                            JText("N/A")),
                                       analysis |-> parse_analysis(o.text)])),
                 "return")
      [] o.kind = "bad_reply"     -> Step(responses, "raise")      \* KeyError and the like
      [] o.kind = "ClientError"   -> client_error(responses, o.code)
      [] o.kind = "BotoCoreError" ->
            Step(Append(responses, Response(502, [error |-> "AWS service error"])),
                 "return")

(* The outer clause written as a finally: it answers 500 on every path. *)
except_Exception_as_finally(step) ==
    IF step.next = "invoke" THEN step
    ELSE Step(Append(step.sent, Response(500, [error |-> "Internal server error"])),
              "return")

(* The outer except clause of do_POST. *)
except_Exception(step) ==
    IF step.next = "raise"
    THEN Step(Append(step.sent, Response(500, [error |-> "Internal server error"])),
              "return")
    ELSE step

(* do_GET *)
get_response(path) ==
    IF path = "/health"
    THEN Response(200, [status |-> "healthy", timestamp |-> "utcnow",
                        service |-> "bedrock-support-assistant",
                        region |-> REGION, model |-> MODEL_ID])
    ELSE Response(404, [error |-> "Not found"])

----------------------------------------------------------------------------
(* The server *)

Init ==
    /\ bedrock_client \in {"client", "None"}
    /\ backlog = <<>>
    /\ pc = "idle"
    /\ req = NoRequest
    /\ outcome = NoOutcome
    /\ io = "ok"
    /\ sent = <<>>
    /\ wire = <<>>
    /\ calls = 0

(* A client connects and sends its request; the kernel queues the connection. *)
Connect(c) ==
    /\ Len(backlog) < MaxBacklog
    /\ backlog' = Append(backlog, c)
    /\ UNCHANGED <<bedrock_client, pc, req, outcome, io, sent, wire, calls>>

(* serve_forever takes the next connection; the request is a GET. *)
do_GET ==
    /\ pc = "idle"
    /\ backlog # <<>>
    /\ Head(backlog)[1] = "GET"
    /\ \E sock \in SocketStates :
          LET response == get_response(Head(backlog)[2]) IN
          /\ req' = Request("GET", Head(backlog)[2], <<>>, HdrAbsent, NoBody)
          /\ io' = sock
          /\ sent' = << response >>
          /\ wire' = Transmit(sock, << response >>)
    /\ backlog' = Tail(backlog)
    /\ outcome' = NoOutcome
    /\ calls' = 0
    /\ UNCHANGED <<bedrock_client, pc>>

(* serve_forever takes the next connection; the request is a POST.  The    *)
(* handler runs to its return, or to the call of invoke_model.             *)
do_POST ==
    /\ pc = "idle"
    /\ backlog # <<>>
    /\ Head(backlog)[1] = "POST"
    /\ \E r \in PostRequests, sock \in SocketStates :
          LET step == except_Exception(validate(r, bedrock_client)) IN
          /\ req' = r
          /\ io' = sock
          /\ sent' = step.sent
          /\ wire' = Transmit(sock, step.sent)
          /\ pc' = IF step.next = "invoke" THEN "invoke_model" ELSE "idle"
          /\ calls' = IF step.next = "invoke" THEN 1 ELSE 0
    /\ backlog' = Tail(backlog)
    /\ outcome' = NoOutcome
    /\ UNCHANGED bedrock_client

(* invoke_model returns or raises, and do_POST runs to its end. *)
invoke_model_returns ==
    /\ pc = "invoke_model"
    /\ \E o \in Outcomes :
          LET step == except_Exception(handle_outcome(sent, req.body, o)) IN
          /\ outcome' = o
          /\ sent' = step.sent
          /\ wire' = Transmit(io, step.sent)
    /\ pc' = "idle"
    /\ UNCHANGED <<bedrock_client, backlog, req, io, calls>>

Next ==
    \/ \E c \in Connections : Connect(c)
    \/ do_GET
    \/ do_POST
    \/ invoke_model_returns

Spec == Init /\ [][Next]_vars

----------------------------------------------------------------------------
(* Vocabulary of the properties *)

(* The handler of a POST has run to its end. *)
Handled == pc = "idle" /\ req.method = "POST"

Status == sent[Len(sent)].status_code
Answer(status_code, message) == << Response(status_code, [error |-> message]) >>

(* The six checks of the validator, as the specification words them. *)
DeclaresJson(r)   == Contains(r.content_type, "application/json")
DeclaredLength(r) == r.content_length.n
HasLength(r)      == r.content_length.kind = "int" /\ DeclaredLength(r) > 0
WithinCap(r)      == DeclaredLength(r) <= MAX_CONTENT_LENGTH
ParsesAsJson(r)   == r.body.enc = "utf-8" /\ r.body.syntax = "json"
HasTicketText(r)  ==
    /\ r.body.kind = "object"
    /\ "ticket" \in DOMAIN r.body.members
    /\ r.body.members["ticket"].kind = "string"
TrimmedLength(r)  == len(strip(r.body.members["ticket"].runs))
TicketPresent(r)  == HasTicketText(r) /\ TrimmedLength(r) > 0
TicketFits(r)     == TrimmedLength(r) <= MAX_TICKET_LENGTH

Valid(r) ==
    /\ DeclaresJson(r) /\ HasLength(r) /\ WithinCap(r) /\ ParsesAsJson(r)
    /\ TicketPresent(r) /\ TicketFits(r)

FirstFailure(r) ==
    CASE ~DeclaresJson(r)  -> Answer(400, "Content-Type must be application/json")
      [] ~HasLength(r)     -> Answer(400, "No content provided")
      [] ~WithinCap(r)     -> Answer(413, "Payload too large")
      [] ~ParsesAsJson(r)  -> Answer(400, "Invalid JSON")
      [] ~TicketPresent(r) -> Answer(400, "Missing or empty 'ticket' field")
      [] OTHER             ->
            Answer(400, "Ticket exceeds maximum length of 5000 characters")

----------------------------------------------------------------------------
(* C1: every POST that fails one of the six validation checks (JSON content *)
(* type, length > 0, length <= 10 MiB, body parses as JSON, trimmed ticket  *)
(* present and non-empty, trimmed ticket <= 5000) is answered with the      *)
(* status and message of the first check it fails, and with nothing else.   *)
FirstFailedCheckDecides ==
    Handled /\ ~Valid(req) => sent = FirstFailure(req)

(* C2: for a POST that passes the content-type, length and JSON-parse       *)
(* checks, no 400 is returned exactly when the trimmed ticket has 1..5000   *)
(* characters; a missing or blank ticket gets the missing-field 400 and a   *)
(* trimmed ticket over 5000 characters the 400 naming the limit.            *)
TicketLengthDecides ==
    Handled /\ DeclaresJson(req) /\ HasLength(req) /\ WithinCap(req) /\ ParsesAsJson(req)
    => /\ (\A i \in 1..Len(sent) : sent[i].status_code # 400)
            <=> (TicketPresent(req) /\ TicketFits(req))
       /\ ~TicketPresent(req)
            => sent = Answer(400, "Missing or empty 'ticket' field")
       /\ TicketPresent(req) /\ ~TicketFits(req)
            => sent = Answer(400, "Ticket exceeds maximum length of 5000 characters")

(* The inference call of this handler has failed. *)
Throttled    == outcome.kind = "ClientError"
                    /\ Contains(outcome.code, "ThrottlingException")
AccessDenied == outcome.kind = "ClientError"
                    /\ ~Contains(outcome.code, "ThrottlingException")
                    /\ Contains(outcome.code, "AccessDeniedException")
CallFailed   == outcome.kind \in {"ClientError", "BotoCoreError", "bad_reply"}

TableMessages ==
    { "Service temporarily unavailable (throttled)",
      "Access denied - check AWS credentials and permissions",
      "Bedrock service error", "AWS service error", "Internal server error" }

(* C3 as claimed: a failed inference call is answered 429 when throttled,   *)
(* 403 when access is denied, and 502 for every other failure of the call   *)
(* or of the reading of its reply, with a message of the fixed table.       *)
EveryOtherFailureIs502 ==
    Handled /\ CallFailed
    => /\ Len(sent) = 1
       /\ sent[1].data \in { [error |-> m] : m \in TableMessages }
       /\ Status = (IF Throttled THEN 429 ELSE IF AccessDenied THEN 403 ELSE 502)

(* C3 amended: a failed inference call is answered 429 when throttled, 403  *)
(* when access is denied, 502 for every other client error and every        *)
(* SDK-level error, and 500 "Internal server error" when the reply cannot   *)
(* be read; the message is always one of the fixed table.                   *)
FailureMapping ==
    Handled /\ CallFailed
    => sent =
         ( CASE Throttled    -> Answer(429, "Service temporarily unavailable (throttled)")
             [] AccessDenied ->
                   Answer(403, "Access denied - check AWS credentials and permissions")
             [] outcome.kind = "ClientError" /\ ~Throttled /\ ~AccessDenied ->
                   Answer(502, "Bedrock service error")
             [] outcome.kind = "BotoCoreError" -> Answer(502, "AWS service error")
             [] OTHER -> Answer(500, "Internal server error") )

UnreadableReplyAnswered500 ==
    Handled /\ outcome.kind = "bad_reply" /\ Status = 500

(* C4: a successful inference call with reply text T is answered 200 with   *)
(* analysis = the parsed T when T is JSON (whatever its keys) and the        *)
(* wrapper {analysis: T} when it is not, and with ticket_id = the request's *)
(* ticket_id when it has one and "N/A" when it has none.                    *)
ExpectedAnalysis(text) ==
    CASE text = StructuredReply ->
            JObject([summary |-> "Login failure", severity |-> "high",
                     category |-> "technical",
                     suggested_response |-> "Please reset your password..."])
      [] text = OtherKeysReply -> JObject([note |-> "n/a"])
      [] text = ArrayReply     -> JArray
      [] OTHER                 -> JObject([analysis |-> text])

SuccessEnvelope ==
    Handled /\ outcome.kind = "reply"
    => /\ Len(sent) = 1
       /\ Status = 200
       /\ DOMAIN sent[1].data = {"ticket_id", "analysis"}
       /\ sent[1].data["analysis"] = ExpectedAnalysis(outcome.text)
       /\ sent[1].data["ticket_id"] =
             ( IF "ticket_id" \in DOMAIN req.body.members
               THEN req.body.members["ticket_id"] ELSE JText("N/A") )

UnkeyedJsonPassedThrough ==
    /\ Handled /\ outcome.kind = "reply" /\ outcome.text = OtherKeysReply
    /\ "ticket_id" \notin DOMAIN req.body.members
    /\ sent[1].data["analysis"] = JObject([note |-> "n/a"])
    /\ sent[1].data["ticket_id"] = JText("N/A")

(* C5: a POST handler calls invoke_model exactly once when the request     *)
(* passes all six validation checks and a client is configured, and not at  *)
(* all otherwise; never more than once.                                     *)
OneCallIffValid ==
    /\ calls \in {0, 1}
    /\ Handled => (calls = 1 <=> Valid(req) /\ bedrock_client = "client")

(* C6 as claimed: a health probe gets its 200 "healthy" whatever the        *)
(* inference side is doing: the probe at the head of the backlog can be      *)
(* answered at once, also while a POST waits for invoke_model, and every     *)
(* answered probe is 200 "healthy".                                          *)
HealthAnsweredRegardless ==
    /\ backlog # <<>> /\ Head(backlog) = <<"GET", "/health">> => ENABLED do_GET
    /\ pc = "idle" /\ req.method = "GET" /\ req.path = "/health"
       => Status = 200 /\ sent[1].data["status"] = "healthy"

(* C7 as claimed: when the socket fails a send_json_response, the client    *)
(* still gets a complete 500 "Internal server error" body.                  *)
SendFailureDegradesTo500 ==
    pc = "idle" /\ req.method # "NONE" /\ io # "ok"
    => /\ wire # <<>>
       /\ wire[Len(wire)] =
            [status_code |-> 500, body |-> "json",
             data |-> [error |-> "Internal server error"]]

(* C8 as claimed: a POST with a JSON content type and a body that is read   *)
(* and is not well-formed JSON (bytes that are not UTF-8 included) is       *)
(* answered 400 "Invalid JSON" and nothing else.                            *)
MalformedBodyIs400 ==
    Handled /\ DeclaresJson(req) /\ HasLength(req) /\ WithinCap(req)
            /\ ~ParsesAsJson(req)
    => sent = Answer(400, "Invalid JSON")

(* C9: of the responses of POST, those with status 200 carry an analysis    *)
(* and no error, all others an error and no analysis; so does every body    *)
(* that reaches the client.                                                 *)
Exclusive(status_code, data) ==
    IF status_code = 200
    THEN "analysis" \in DOMAIN data /\ "error" \notin DOMAIN data
    ELSE "error" \in DOMAIN data /\ "analysis" \notin DOMAIN data

SuccessXorError ==
    req.method = "POST"
    => /\ \A i \in 1..Len(sent) : Exclusive(sent[i].status_code, sent[i].data)
       /\ \A i \in 1..Len(wire) :
             wire[i].body = "json" => Exclusive(wire[i].status_code, wire[i].data)

SuccessOnTheWire ==
    /\ Handled /\ wire # <<>> /\ wire[1].body = "json" /\ wire[1].status_code = 200
    /\ "analysis" \in DOMAIN wire[1].data

(* C10: do_POST calls send_json_response exactly once on every path: never  *)
(* twice, not before invoke_model returns, and once when it has returned.   *)
RespondsExactlyOnce ==
    req.method = "POST"
    => /\ Len(sent) <= 1
       /\ pc = "invoke_model" => sent = <<>>
       /\ pc = "idle" => Len(sent) = 1

CatchAllRespondedOnce ==
    /\ Handled /\ req.body.kind = "array" /\ Len(sent) = 1 /\ Status = 500

====
